---- MODULE Spec2Model ----
(***************************************************************************)
(* Model of src/src/lib.rs: the linq! query macro (filter/map pipeline),   *)
(* monad::Monad::bind for Option<T>, overloading::foo and its two ctor     *)
(* implementations, and the impl_macro implementations of Foo for the 12   *)
(* numeric types.                                                          *)
(***************************************************************************)
EXTENDS Integers, Sequences, FiniteSets, TLC

VARIABLES
    \* linq!: the query as written, and the state of its consumption
    src, wheres, sel, pc, pos, cur, j, acc, out, log,
    \* Monad::bind: a chain of binds and the invocations it made
    chain, hist, calls, nested,
    \* the build: the target's pointer width, and whether overflow is checked
    ptrBits, overflowChecks,
    \* overloading::foo: the argument of a call and what the call gave
    arg, ret,
    \* impl_macro: MyStruct<ty>(stored).foo(argx) and what the call gave
    ty, stored, argx, res

linqVars == <<src, wheres, sel, pc, pos, cur, j, acc, out, log>>
monadVars == <<chain, hist, calls, nested>>

buildVars == <<ptrBits, overflowChecks>>
overloadVars == <<arg, ret>>
implVars == <<ty, stored, argx, res>>

nonLinqVars == <<monadVars, buildVars, overloadVars, implVars>>
nonMonadVars == <<linqVars, buildVars, overloadVars, implVars>>
nonOverloadVars == <<linqVars, monadVars, implVars>>
nonImplVars == <<linqVars, monadVars, overloadVars>>

vars == <<linqVars, monadVars, buildVars, overloadVars, implVars>>

(***************************************************************************)
(* Bounds of the model.                                                    *)
(***************************************************************************)
MaxLen == 3
MaxWhere == 2
ElemMax == 2
MaxChain == 3
MaxVal == 2
MaxStr == 3
MaxSmall == 2

(***************************************************************************)
(* linq!                                                                   *)
(***************************************************************************)

\* Sequences over S of length at most n.
SeqsUpTo(S, n) == UNION {[1..k -> S] : k \in 0..n}

\* The source of tests::linq_test.
TestSource == <<1, 2, 3, 4, 5, 6, 7, 8, 9, 10>>

Elems == 0..ElemMax

\* The `where` expressions a query may be written with ($w), by name.
WhereExprs == {"even", "ne0", "gt1"}

\* The `select` expressions a query may be written with ($s), by name.
SelectExprs == {"plus10", "double"}

\* The value of the where-expression w with the iteration variable bound to x.
EvalWhere(w, x) ==
    CASE w = "even" -> x % 2 = 0
      [] w = "ne0"  -> x # 0
      [] w = "gt1"  -> x > 1

SelectIdentity(s, x) == x

\* The value of the select-expression s with the iteration variable bound to x.
Select(s, x) ==
    CASE s = "plus10" -> x + 10
      [] s = "double" -> x * 2

AndOr(a, b) == a \/ b

\* One `& $w` of the filter closure's body (true $(&$w)*).
AndWhere(a, b) == a /\ b

\* Which arm of linq! the query matches: the first arm (no filter adapter) is
\* taken exactly when no `where` is written.
HasFilter(ws) == Len(ws) > 0

\* The variables of the other units while a query is followed.
LinqUnused ==
    /\ src = <<>> /\ wheres = <<>> /\ sel = "plus10" /\ pc = "unused" /\ pos = 0
    /\ cur = 0 /\ j = 0 /\ acc = TRUE /\ out = <<>> /\ log = <<>>

MonadUnused == chain = <<>> /\ hist = <<>> /\ calls = <<>> /\ nested = <<>>

BuildUnused == ptrBits = 64 /\ overflowChecks = TRUE

OverloadUnused == arg = <<>> /\ ret = <<>>

ImplUnused == ty = "usize" /\ stored = <<>> /\ argx = <<>> /\ res = <<>>

Event(kind, idx, w, val) == [kind |-> kind, idx |-> idx, w |-> w, val |-> val]

InitLinq ==
    /\ src \in SeqsUpTo(Elems, MaxLen) \cup {TestSource}
    /\ wheres \in SeqsUpTo(WhereExprs, MaxWhere)
    /\ sel \in SelectExprs
    /\ pc = "unbuilt"
    /\ pos = 0
    /\ cur = 0
    /\ j = 0
    /\ acc = TRUE
    /\ out = <<>>
    /\ log = <<>>
    /\ MonadUnused /\ BuildUnused /\ OverloadUnused /\ ImplUnused

BuildEager ==
    /\ pc = "unbuilt"
    /\ pc' = "idle"
    /\ pos' = Len(src)
    /\ log' = [i \in 1..Len(src) |-> Event("pull", i, 0, TRUE)]
    /\ UNCHANGED <<src, wheres, sel, cur, j, acc, out>>
    /\ UNCHANGED nonLinqVars

\* The macro's expansion is evaluated: $d, then .filter(..) (second arm only)
\* and .map(..) wrap it. The adapters are constructed; nothing is pulled.
Build ==
    /\ pc = "unbuilt"
    /\ pc' = "idle"
    /\ UNCHANGED <<src, wheres, sel, pos, cur, j, acc, out, log>>
    /\ UNCHANGED nonLinqVars

\* The consumer calls next() on the query; Map::next asks its inner iterator.
CallNext ==
    /\ pc = "idle"
    /\ pc' = "pull"
    /\ UNCHANGED <<src, wheres, sel, pos, cur, j, acc, out, log>>
    /\ UNCHANGED nonLinqVars

\* The source iterator $d is asked for its next element.
SourceNext ==
    /\ pc = "pull"
    /\ IF pos < Len(src)
         THEN /\ pos' = pos + 1
              /\ cur' = src[pos + 1]
              /\ log' = Append(log, Event("pull", pos + 1, 0, TRUE))
              /\ IF HasFilter(wheres)
                   THEN pc' = "where" /\ j' = 1 /\ acc' = TRUE
                   ELSE pc' = "select" /\ UNCHANGED <<j, acc>>
         ELSE /\ pc' = "done"
              /\ UNCHANGED <<pos, cur, j, acc, log>>
    /\ UNCHANGED <<src, wheres, sel, out>>
    /\ UNCHANGED nonLinqVars

\* The filter closure |&$r| (true & w1 & ... & wk) evaluates its next operand.
\* `&` on bool evaluates both operands, whatever the left one is.
EvalWhereStep ==
    /\ pc = "where"
    /\ LET b == EvalWhere(wheres[j], cur)
           a == AndWhere(acc, b)
       IN  /\ log' = Append(log, Event("where", pos, j, b))
           /\ acc' = a
           /\ IF j < Len(wheres)
                THEN j' = j + 1 /\ pc' = "where"
                ELSE j' = j /\ pc' = (IF a THEN "select" ELSE "pull")
    /\ UNCHANGED <<src, wheres, sel, pos, cur, out>>
    /\ UNCHANGED nonLinqVars

\* The map closure |$r| $s is applied and next() returns Some of its value.
EvalSelect ==
    /\ pc = "select"
    /\ out' = Append(out, Select(sel, cur))
    /\ log' = Append(log, Event("select", pos, 0, TRUE))
    /\ pc' = "idle"
    /\ UNCHANGED <<src, wheres, sel, pos, cur, j, acc>>
    /\ UNCHANGED nonLinqVars

NextLinq == Build \/ CallNext \/ SourceNext \/ EvalWhereStep \/ EvalSelect

SpecLinq == InitLinq /\ [][NextLinq]_vars

\* Whether every where-expression of ws is true of x.
Passes(ws, x) == \A i \in 1..Len(ws) : EvalWhere(ws[i], x)

RECURSIVE Expected(_, _, _)
\* The projections of the elements of s that pass ws, in the order of s.
Expected(s, ws, p) ==
    IF s = <<>> THEN <<>>
    ELSE (IF Passes(ws, Head(s)) THEN <<Select(p, Head(s))>> ELSE <<>>)
         \o Expected(Tail(s), ws, p)

WhereEvents == {a \in 1..Len(log) : log[a].kind = "where"}

\* C2: for each element the where-expressions are evaluated in written order,
\* and after one evaluates to false no later one is evaluated for that element.
WhereShortCircuit ==
    \A a, b \in WhereEvents :
        log[a].idx = log[b].idx =>
          /\ (a < b => log[a].w < log[b].w)
          /\ (log[a].val = FALSE => log[b].w <= log[a].w)

\* The order half of C2 alone, which the code does keep.
WhereInOrder ==
    \A a, b \in WhereEvents :
        (log[a].idx = log[b].idx /\ a < b) => log[a].w < log[b].w

\* How many of the first i source elements pass every where-expression.
PassCount(i) == Cardinality({k \in 1..i : Passes(wheres, src[k])})

\* C3: building the query pulls nothing and evaluates nothing, and when the
\* n-th output has just been delivered the source has been pulled exactly up to
\* the element that produced it, with nothing evaluated beyond it.
LinqLazy ==
    /\ (pc \in {"unbuilt", "idle"} /\ out = <<>>) => (pos = 0 /\ log = <<>>)
    /\ (pc = "idle" /\ Len(out) >= 1) =>
          /\ Passes(wheres, src[pos])
          /\ PassCount(pos) = Len(out)
          /\ \A a \in 1..Len(log) : log[a].idx <= pos
          /\ Cardinality({a \in 1..Len(log) : log[a].kind = "pull"}) = pos

LinqLazyWitness ==
    /\ pc = "idle"
    /\ Len(out) = 1
    /\ pos = 2
    /\ Len(src) = 3
    /\ Len(wheres) = 2

\* C4: with no `where`, a fully consumed query has delivered one projection per
\* source element, in order; the source 1..10 with `+10` gives 11..20.
LinqSelectOnly ==
    (pc = "done" /\ Len(wheres) = 0) =>
      /\ Len(out) = Len(src)
      /\ \A i \in 1..Len(src) : out[i] = Select(sel, src[i])
      /\ (src = TestSource /\ sel = "plus10")
            => out = <<11, 12, 13, 14, 15, 16, 17, 18, 19, 20>>

LinqSelectOnlyWitness ==
    /\ pc = "done"
    /\ Len(wheres) = 0
    /\ src = TestSource
    /\ sel = "plus10"
    /\ Len(out) = 10

(***************************************************************************)
(* monad::Monad for Option<T>                                              *)
(***************************************************************************)

\* Option<T>.
None == [tag |-> "None", val |-> 0]
Some(x) == [tag |-> "Some", val |-> x]

\* The functions handed to bind, by name: the closures of tests::monad_test
\* (|x| Some(x * 10), mul_5, div_10) and two that can return None.
BindFns == {"mul_10", "mul_5", "div_10", "none", "half_even"}

ApplyFn(name, x) ==
    CASE name = "mul_10"    -> Some(x * 10)
      [] name = "mul_5"     -> Some(x * 5)
      [] name = "div_10"    -> Some(x \div 10)
      [] name = "none"      -> None
      [] name = "half_even" -> IF x % 2 = 0 THEN Some(x \div 2) ELSE None

\* A closure value: a named function, or |y| name(y).bind(then).
Fn(name) == [kind |-> "fn", name |-> name, then |-> <<>>]
AndThen(name, g) == [kind |-> "andThen", name |-> name, then |-> <<g>>]

RECURSIVE Apply(_, _)
RECURSIVE bind(_, _)

\* Calling the closure c with argument y.
Apply(c, y) ==
    IF c.kind = "fn" THEN ApplyFn(c.name, y)
    ELSE bind(ApplyFn(c.name, y), c.then[1]).ret

bindCallsOnNone(self, f) ==
    IF self.tag = "Some"
      THEN [ret |-> Apply(f, self.val), args |-> <<self.val>>]
      ELSE [ret |-> Apply(f, 0), args |-> <<0>>]

bindOrSelf(self, f) ==
    IF self.tag = "Some"
      THEN [ret |-> IF Apply(f, self.val).tag = "Some" THEN Apply(f, self.val) ELSE self,
            args |-> <<self.val>>]
      ELSE [ret |-> None, args |-> <<>>]

\* self.bind(f): what it returns, and the arguments f was invoked with.
bind(self, f) ==
    IF self.tag = "Some"
      THEN [ret |-> Apply(f, self.val), args |-> <<self.val>>]
      ELSE [ret |-> None, args |-> <<>>]

RECURSIVE Compose(_)
\* The right-nested closure of a chain: |y| f1(y).bind(|z| f2(z).bind(...)).
Compose(fs) ==
    IF Len(fs) = 1 THEN Fn(fs[1]) ELSE AndThen(fs[1], Compose(Tail(fs)))

\* The receivers the chain may start from.
Receivers == {None} \cup {Some(v) : v \in (0..MaxVal) \cup {10}}

InitMonad ==
    /\ chain \in SeqsUpTo(BindFns, MaxChain)
    /\ hist \in {<<x>> : x \in Receivers}
    /\ calls = <<>>
    /\ nested = <<>>
    /\ LinqUnused /\ BuildUnused /\ OverloadUnused /\ ImplUnused

\* The next .bind(f) of the chain hist[1].bind(f1).bind(f2)... is evaluated.
BindStep ==
    /\ hist # <<>>
    /\ Len(hist) <= Len(chain)
    /\ LET k == Len(hist)
           r == bind(hist[k], Fn(chain[k]))
       IN  /\ hist' = Append(hist, r.ret)
           /\ calls' = calls \o [i \in 1..Len(r.args) |-> <<k, r.args[i]>>]
    /\ UNCHANGED <<chain, nested>>
    /\ UNCHANGED nonMonadVars

\* The same chain written with nested closures,
\* hist[1].bind(|y| f1(y).bind(|z| f2(z)...)), is evaluated.
BindNested ==
    /\ hist # <<>>
    /\ Len(chain) >= 1
    /\ nested = <<>>
    /\ nested' = <<bind(hist[1], Compose(chain)).ret>>
    /\ UNCHANGED <<chain, hist, calls>>
    /\ UNCHANGED nonMonadVars

NextMonad == BindStep \/ BindNested

SpecMonad == InitMonad /\ [][NextMonad]_vars

\* The positions in calls of the invocations made by the i-th bind.
CallsOf(i) == {c \in 1..Len(calls) : calls[c][1] = i}

\* C5: a bind on None returns None and does not invoke f; a bind on Some(x)
\* returns f(x), invoking f exactly once, with x.
BindContract ==
    \A i \in 1..(Len(hist) - 1) :
        /\ hist[i].tag = "None" => (hist[i + 1] = None /\ CallsOf(i) = {})
        /\ hist[i].tag = "Some" =>
              /\ hist[i + 1] = ApplyFn(chain[i], hist[i].val)
              /\ Cardinality(CallsOf(i)) = 1
              /\ \A c \in CallsOf(i) : calls[c][2] = hist[i].val
        /\ (hist[i] = Some(10) /\ chain[i] = "mul_10") => hist[i + 1] = Some(100)

BindContractWitness ==
    /\ Len(hist) = 3
    /\ hist[1] = Some(10)
    /\ chain[1] = "half_even"
    /\ hist[2] = Some(5)
    /\ hist[3] = None
    /\ calls = <<<<1, 10>>, <<2, 5>>>>

\* C6: the functions of a chain are invoked left to right; once the receiver is
\* None, or a function returns None, no later function is invoked and every
\* later result, the chain's included, is None.
ChainAbsence ==
    /\ \A a, b \in 1..Len(calls) : a < b => calls[a][1] < calls[b][1]
    /\ \A i \in 1..Len(hist) :
          (\/ hist[i] = None
           \/ (i <= Len(chain) /\ hist[i].tag = "Some"
                 /\ ApplyFn(chain[i], hist[i].val) = None))
          => /\ \A m \in (i + 1)..Len(hist) : hist[m] = None
             /\ \A c \in 1..Len(calls) : calls[c][1] <= i
             /\ hist[i] = None => \A c \in 1..Len(calls) : calls[c][1] < i
    /\ (Len(hist) = 3 /\ hist[1] = Some(10) /\ chain = <<"mul_5", "div_10">>)
          => hist[3] = Some(5)

ChainAbsenceWitness ==
    /\ Len(chain) = 3
    /\ Len(hist) = 4
    /\ hist[1] = Some(1)
    /\ hist[2] = None
    /\ hist[4] = None
    /\ Len(calls) = 1

\* C7: Some(x).bind(f).bind(g) equals Some(x).bind(|y| f(y).bind(g)).
BindAssociative ==
    (/\ Len(chain) = 2
     /\ Len(hist) = 3
     /\ hist[1].tag = "Some"
     /\ nested # <<>>)
    => hist[3] = nested[1]

BindAssociativeWitness ==
    /\ Len(chain) = 2
    /\ Len(hist) = 3
    /\ hist[1] = Some(1)
    /\ hist[2] = None
    /\ chain[2] = "mul_5"
    /\ nested = <<None>>

(***************************************************************************)
(* Machine integers.  A value of an n-byte integer type is the sequence of *)
(* its n bytes, least significant first (two's complement when signed), so *)
(* that every width up to 128 bits is computed with exactly.               *)
(***************************************************************************)

\* The pointer widths Rust has targets for: the width of usize and isize.
PointerWidths == {16, 32, 64}

\* The types of `r#impl! { usize u8 u16 u32 u64 u128 isize i8 i16 i32 i64 i128 }`.
ImplTypes ==
    {"usize", "u8", "u16", "u32", "u64", "u128",
     "isize", "i8", "i16", "i32", "i64", "i128"}

IsSigned(t) == t \in {"isize", "i8", "i16", "i32", "i64", "i128"}

\* The size in bytes of a value of type t on the target.
SizeOf(t) ==
    CASE t \in {"u8", "i8"}       -> 1
      [] t \in {"u16", "i16"}     -> 2
      [] t \in {"u32", "i32"}     -> 4
      [] t \in {"u64", "i64"}     -> 8
      [] t \in {"u128", "i128"}   -> 16
      [] t \in {"usize", "isize"} -> ptrBits \div 8

RECURSIVE Pow256(_)
Pow256(i) == IF i = 0 THEN 1 ELSE 256 * Pow256(i - 1)

\* The n bytes of the small natural k.
FromNat(k, n) == [i \in 1..n |-> IF i <= 3 THEN (k \div Pow256(i - 1)) % 256 ELSE 0]

\* The n-byte value with the given most significant byte, least significant
\* byte and bytes in between.
Pattern(n, top, fill, low) ==
    [i \in 1..n |-> IF i = n THEN top ELSE IF i = 1 THEN low ELSE fill]

IsNegative(t, a) == IsSigned(t) /\ a[Len(a)] >= 128

RECURSIVE AddCarry(_, _, _)
\* a + b + c byte by byte: Len(a) bytes of sum, then the carry out.
AddCarry(a, b, c) ==
    IF a = <<>> THEN <<c>>
    ELSE LET s == Head(a) + Head(b) + c
         IN  <<s % 256>> \o AddCarry(Tail(a), Tail(b), s \div 256)

RECURSIVE MulCarry(_, _, _)
\* a * m + c byte by byte, for a small m: Len(a) bytes of product, then the
\* carry out.
MulCarry(a, m, c) ==
    IF a = <<>> THEN <<c>>
    ELSE LET q == Head(a) * m + c
         IN  <<q % 256>> \o MulCarry(Tail(a), m, q \div 256)

Low(w) == SubSeq(w, 1, Len(w) - 1)

\* What evaluating an expression gives: a value, or a panic.
Returned(v) == [kind |-> "ret", val |-> v]
Panicked == [kind |-> "panic", val |-> <<>>]

\* What an overflowing arithmetic operation gives: a panic in a build with
\* overflow checks, the wrapped value in a build without.
OnOverflow(wrapped) == IF overflowChecks THEN Panicked ELSE Returned(wrapped)

\* a + b in type t.
AddOp(t, a, b) ==
    LET s == AddCarry(a, b, 0)
        v == Low(s)
        overflows == IF IsSigned(t)
                       THEN IsNegative(t, a) = IsNegative(t, b)
                            /\ IsNegative(t, v) # IsNegative(t, a)
                       ELSE s[Len(s)] # 0
    IN  IF overflows THEN OnOverflow(v) ELSE Returned(v)

\* a * m in an unsigned type, for a small m.
MulOp(a, m) ==
    LET q == MulCarry(a, m, 0)
    IN  IF q[Len(q)] # 0 THEN OnOverflow(Low(q)) ELSE Returned(Low(q))

\* The values of type t the calls are made with: the small ones, those of the
\* tests, and those around the ends of the type's range and around a tenth of it.
Values(t) ==
    LET n == SizeOf(t)
    IN  {FromNat(k, n) : k \in (0..MaxSmall) \cup {8, 10, 42}}
        \cup {Pattern(n, top, fill, low) :
                top \in {25, 26, 127, 128, 255}, fill \in {0, 153, 255},
                low \in {0, 1, 153, 154, 255}}

(***************************************************************************)
(* overloading                                                             *)
(***************************************************************************)

\* The characters texts are made of, and the text of tests::overloading_test.
Chars == {"a", "!", "e_acute"}

Utf8(c) ==
    CASE c = "a"       -> <<97>>
      [] c = "!"       -> <<33>>
      [] c = "e_acute" -> <<195, 169>>

RECURSIVE Encode(_)
\* The bytes of the String holding the characters cs.
Encode(cs) == IF cs = <<>> THEN <<>> ELSE Utf8(Head(cs)) \o Encode(Tail(cs))

Hello == <<104, 101, 108, 108, 111>>

Bang == Utf8("!")

ctor_usize_times100(a) == MulOp(a, 100)

\* <Overloading as Foo<usize>>::ctor
ctor_usize(a) == MulOp(a, 10)

ctor_String_prepend(s) == Returned(Bang \o s)

\* <Overloading as Foo<String>>::ctor
ctor_String(s) == Returned(s \o Bang)

\* overloading::foo: forwards to the ctor of the argument's type.
foo(a) ==
    CASE a.type = "usize"  -> ctor_usize(a.val)
      [] a.type = "String" -> ctor_String(a.val)

UsizeArgs == {[type |-> "usize", val |-> v] : v \in Values("usize")}

StringArgs ==
    {[type |-> "String", val |-> Encode(cs)] : cs \in SeqsUpTo(Chars, MaxStr)}
    \cup {[type |-> "String", val |-> Hello]}

InitOverload ==
    /\ ptrBits \in PointerWidths
    /\ overflowChecks \in BOOLEAN
    /\ arg \in {<<a>> : a \in UsizeArgs \cup StringArgs}
    /\ ret = <<>>
    /\ LinqUnused /\ MonadUnused /\ ImplUnused

\* overloading::foo(arg) is called.
CallFoo ==
    /\ arg # <<>>
    /\ ret = <<>>
    /\ ret' = <<foo(arg[1])>>
    /\ UNCHANGED <<arg, buildVars>>
    /\ UNCHANGED nonOverloadVars

NextOverload == CallFoo

SpecOverload == InitOverload /\ [][NextOverload]_vars

(***************************************************************************)
(* impl_macro                                                              *)
(***************************************************************************)

impl_foo_argument_twice(t, self0, x) == AddOp(t, x, x)

\* <MyStruct<t> as Foo<t>>::foo, the body every expansion of r#impl! shares.
impl_foo(t, self0, x) == AddOp(t, self0, x)

InitImpl ==
    /\ ptrBits \in PointerWidths
    /\ overflowChecks \in BOOLEAN
    /\ ty \in ImplTypes
    /\ stored \in {<<v>> : v \in Values(ty)}
    /\ argx \in {<<v>> : v \in Values(ty)}
    /\ res = <<>>
    /\ LinqUnused /\ MonadUnused /\ OverloadUnused

\* MyStruct(stored).foo(argx) is called.
CallImplFoo ==
    /\ stored # <<>>
    /\ res = <<>>
    /\ res' = <<impl_foo(ty, stored[1], argx[1])>>
    /\ UNCHANGED <<ty, stored, argx, buildVars>>
    /\ UNCHANGED nonImplVars

NextImpl == CallImplFoo

SpecImpl == InitImpl /\ [][NextImpl]_vars

(***************************************************************************)
(* The claims about overloading and impl_macro.                            *)
(***************************************************************************)

\* The value a, of type t, written with one more byte.
Wide(t, a) == a \o <<IF IsNegative(t, a) THEN 255 ELSE 0>>

\* Whether the wide value w is a value of type t.
Fits(t, w) == w = Wide(t, Low(w))

RECURSIVE TimesByAdding(_, _)
\* k times w, by adding, in the width of w.
TimesByAdding(w, k) ==
    IF k = 0 THEN [i \in 1..Len(w) |-> 0]
    ELSE Low(AddCarry(w, TimesByAdding(w, k - 1), 0))

\* The number n * 10, with one byte more than usize has.
TenTimes(a) == TimesByAdding(Wide("usize", a), 10)

\* The number a 2-byte unsigned value stands for.
Nat16(a) == a[1] + 256 * a[2]

UsizeCallDone == ret # <<>> /\ arg[1].type = "usize"

\* C8 as stated: for every usize n, overloading::foo(n) returns n * 10.
UsizeTimesTenAlways ==
    UsizeCallDone =>
      /\ ret[1].kind = "ret"
      /\ Wide("usize", ret[1].val) = TenTimes(arg[1].val)

\* C8 as amended: overloading::foo(n) returns n * 10 whenever n * 10 is a usize
\* (so foo(10) is 100); when it is not, the call panics in a build with overflow
\* checks and returns n * 10 modulo 2^w in a build without.
UsizeTimesTen ==
    UsizeCallDone =>
      LET n == arg[1].val
          e == TenTimes(n)
      IN  /\ Fits("usize", e) => ret[1] = Returned(Low(e))
          /\ ~Fits("usize", e) =>
                ret[1] = (IF overflowChecks THEN Panicked ELSE Returned(Low(e)))
          /\ n = FromNat(10, Len(n)) => ret[1] = Returned(FromNat(100, Len(n)))
          /\ ptrBits = 16 =>
                ret[1] = (IF Nat16(n) * 10 <= 65535 \/ ~overflowChecks
                            THEN Returned(FromNat((Nat16(n) * 10) % 65536, 2))
                            ELSE Panicked)

UsizeTimesTenWitness ==
    /\ UsizeCallDone
    /\ ptrBits = 64
    /\ arg[1].val = Pattern(8, 25, 153, 153)
    /\ ret[1] = Returned(Pattern(8, 255, 255, 250))

ImplCallDone == res # <<>>

\* The number stored + argx, with one byte more than ty has.
WideSum == Low(AddCarry(Wide(ty, stored[1]), Wide(ty, argx[1]), 0))

\* The number a 1-byte value of type t stands for.
Int8(t, a) == IF IsNegative(t, a) THEN a[1] - 256 ELSE a[1]

\* C9 as stated: in each of the 12 types, MyStruct(v).foo(x) returns v + x.
ImplFooSumAlways ==
    ImplCallDone =>
      /\ res[1].kind = "ret"
      /\ Wide(ty, res[1].val) = WideSum

\* C9 as amended: in each of the 12 types, MyStruct(v).foo(x) returns v + x
\* whenever v + x is a value of the type (so 42 and 8 give 50 in every type);
\* when it is not, the call panics in a build with overflow checks and returns
\* v + x modulo 2^w in a build without.
ImplFooSum ==
    ImplCallDone =>
      LET n == SizeOf(ty)
          s == Int8(ty, stored[1]) + Int8(ty, argx[1])
      IN  /\ Fits(ty, WideSum) => res[1] = Returned(Low(WideSum))
          /\ ~Fits(ty, WideSum) =>
                res[1] = (IF overflowChecks THEN Panicked ELSE Returned(Low(WideSum)))
          /\ (stored[1] = FromNat(42, n) /\ argx[1] = FromNat(8, n))
                => res[1] = Returned(FromNat(50, n))
          /\ n = 1 =>
                res[1] = (IF (IF IsSigned(ty) THEN s \in -128..127 ELSE s \in 0..255)
                               \/ ~overflowChecks
                            THEN Returned(<<s % 256>>)
                            ELSE Panicked)

ImplFooSumWitness ==
    /\ ImplCallDone
    /\ ty = "i128"
    /\ stored[1] = FromNat(42, 16)
    /\ argx[1] = FromNat(8, 16)
    /\ res[1] = Returned(FromNat(50, 16))

\* How many characters the UTF-8 bytes b hold.
CharCount(b) == Cardinality({i \in 1..Len(b) : b[i] \div 64 # 2})

\* C10: overloading::foo(s) returns s with one '!' appended: one more character
\* (and byte) than s, s itself first, '!' last; "hello" gives "hello!".
StringBang ==
    (ret # <<>> /\ arg[1].type = "String") =>
      LET s == arg[1].val
          r == ret[1].val
      IN  /\ ret[1].kind = "ret"
          /\ Len(r) = Len(s) + 1
          /\ CharCount(r) = CharCount(s) + 1
          /\ SubSeq(r, 1, Len(s)) = s
          /\ r[Len(r)] = 33
          /\ s = Hello => r = <<104, 101, 108, 108, 111, 33>>

StringBangWitness ==
    /\ ret # <<>>
    /\ arg[1] = [type |-> "String", val |-> Hello]
    /\ ret[1] = Returned(<<104, 101, 108, 108, 111, 33>>)

====
